---- MODULE Spec2Model ----
(***************************************************************************)
(* A model of x11-primary-switcher (src/src/main.rs): one run of main, the *)
(* xrandr output parser, the Sway config preference extractor and the      *)
(* Sway hint resolver.                                                     *)
(*                                                                         *)
(* Text is modelled as a sequence of tokens whose concatenation is the     *)
(* text: "DP-1 connected" is <<"DP", "-", "1", " ", "connected">>.  The    *)
(* token alphabets are chosen so that every literal the code searches for  *)
(* (" primary ", "Primary Monitor Start", "output", a quote, '#', the      *)
(* connector families) can only occur as whole tokens.  Standard input is  *)
(* modelled character by character.  Option values are sequences of       *)
(* length 0 (None) or 1 (Some).  Indices are 0-based as in the source;     *)
(* TLA+ sequences are 1-based, so outputs[i] of the source is              *)
(* outputs[i + 1] here.                                                    *)
(***************************************************************************)
EXTENDS Integers, Sequences, FiniteSets, TLC

VARIABLES
    pc,             \* position of the run
    flags,          \* the mode flags and whether --config is given
    cfg_path,       \* main's `cfg_path` (default mode)
    xres,           \* what `xrandr --query` gave xrandr_list_outputs
    outputs,        \* main's `outputs`
    next_idx,       \* main's `next_idx` (auto mode)
    cfgContent,     \* the config file as read (None: unreadable)
    blocks,         \* read_preferred_from_sway_config's `blocks`
    preferred,      \* main's `preferred`
    hint,           \* the argument of map_sway_hint_to_connector
    swayListing,    \* what `swaymsg -t get_outputs` gave (None: failed)
    resolved,       \* the result of map_sway_hint_to_connector
    stdinLine,      \* the line read from standard input
    xrandrQueries,  \* number of `xrandr --query` processes run
    swayQueries,    \* number of `swaymsg` processes run
    configReads,    \* number of reads of the config file
    applyCalls,     \* the targets of the `xrandr --output .. --primary` calls
    stdout,         \* lines printed to standard output
    stderr,         \* lines printed to standard error
    notifications,  \* notifications sent, each with whether show() succeeded
    modesRun,       \* the modes whose logic has run
    exitCode        \* the exit status (None while running)

vars == << pc, flags, cfg_path, xres, outputs, next_idx, cfgContent, blocks, preferred,
           hint, swayListing, resolved, stdinLine, xrandrQueries, swayQueries,
           configReads, applyCalls, stdout, stderr, notifications, modesRun,
           exitCode >>

-----------------------------------------------------------------------------
(* Bounds of the model *)

MaxXLines == 2

MaxFileLines == 4

MaxRecords == 2

MaxInputLen == 2

-----------------------------------------------------------------------------
(* Option values and text helpers *)

None == << >>

Some(x) == << x >>

SeqsUpTo(S, n) == UNION { [1..k -> S] : k \in 0..n }

\* char::is_whitespace, on the tokens used here
WS == { " ", "\t", "\n" }

RECURSIVE TrimStart(_)
TrimStart(s) ==
    IF s # << >> /\ Head(s) \in WS THEN TrimStart(Tail(s)) ELSE s

RECURSIVE TrimEnd(_)
TrimEnd(s) ==
    IF s # << >> /\ s[Len(s)] \in WS
    THEN TrimEnd(SubSeq(s, 1, Len(s) - 1))
    ELSE s

Trim(s) == TrimEnd(TrimStart(s))

\* str::contains
Contains(s, pat) ==
    \E i \in 0..(Len(s) - Len(pat)) : SubSeq(s, i + 1, i + Len(pat)) = pat

\* length of the maximal run of tokens of class S that starts at position i
RECURSIVE RunLen(_, _, _)
RunLen(s, i, S) ==
    IF i <= Len(s) /\ s[i] \in S THEN 1 + RunLen(s, i + 1, S) ELSE 0

-----------------------------------------------------------------------------
(* X11/xrandr helpers *)

\* the tokens made only of characters of [A-Za-z0-9\-_.+:/]
NameToks == { "DP", "HDMI", "eDP", "-", "1", "2", "3", "connected",
              "disconnected", "primary", "1920x1080", "60.00" }

\* ^([A-Za-z0-9\-_.+:/]+)\s+(connected|disconnected)(?:\s+primary)?
XrandrCaptures(line) ==
    LET n == RunLen(line, 1, NameToks)
        w == RunLen(line, n + 1, WS)
        k == n + w + 1
    IN  IF n >= 1 /\ w >= 1 /\ k <= Len(line)
           /\ line[k] \in { "connected", "disconnected" }
        THEN Some([name |-> SubSeq(line, 1, n), status |-> line[k]])
        ELSE None

\* the optional group (?:\s+primary)? of the pattern took part in the match
XLinePrimaryByPattern(line) ==
    LET n == RunLen(line, 1, NameToks)
        w == RunLen(line, n + 1, WS)
        k == n + w + 1
        v == RunLen(line, k + 1, WS)
    IN  v >= 1 /\ k + v + 1 <= Len(line) /\ line[k + v + 1] = "primary"

\* let primary = line.contains(" primary ");
XLinePrimary(line) == Contains(line, << " ", "primary", " " >>)

RECURSIVE ParseLines(_)
ParseLines(text) ==
    IF text = << >> THEN << >>
    ELSE LET line == Head(text)
             c    == XrandrCaptures(line)
             rest == ParseLines(Tail(text))
         IN  IF c # None /\ c[1].status = "connected"
             THEN << [name      |-> c[1].name,
                      primary   |-> XLinePrimary(line),
                      connected |-> TRUE] >> \o rest
             ELSE rest

\* res is None when xrandr could not be run or returned non-zero
xrandr_list_outputs(res) ==
    IF res = None THEN None ELSE Some(ParseLines(res[1]))

RECURSIVE FirstPrimaryFrom(_, _)
FirstPrimaryFrom(outs, i) ==
    IF i >= Len(outs) THEN None
    ELSE IF outs[i + 1].primary THEN Some(i)
    ELSE FirstPrimaryFrom(outs, i + 1)

current_primary_index_name(outs) ==
    LET idx == FirstPrimaryFrom(outs, 0)
    IN  [idx  |-> idx,
         name |-> IF idx = None THEN None ELSE Some(outs[idx[1] + 1].name)]

\* the lines `xrandr --query` is given to print
XLines == {
    << "DP", "-", "1", " ", "connected", " ", "primary", " ", "1920x1080" >>,
    << "HDMI", "-", "1", " ", "connected", " ", "1920x1080" >>,
    << "eDP", "-", "1", " ", "connected", " ", "primary", " ", "1920x1080" >>,
    << "DP", "-", "2", " ", "disconnected", " ", "primary", " ", "(" >>,
    << " ", " ", "1920x1080", " ", "60.00" >>,
    << "DP", "-", "3", " ", "connected", " ", "primary" >>,
    << "60.00", " ", "connected" >> }

XTexts == SeqsUpTo(XLines, MaxXLines)

-----------------------------------------------------------------------------
(* Mode flags and the modes' arithmetic *)

\* a mutation of SelectMode: --auto-switch tested before --status
SelectModeAutoFirst(f) ==
    IF f.auto THEN "auto"
    ELSE IF f.status THEN "status"
    ELSE IF f.use_default THEN "default"
    ELSE "interactive"

\* the chain of `if` of main: status, then auto, then default, else interactive
SelectMode(f) ==
    IF f.status THEN "status"
    ELSE IF f.auto THEN "auto"
    ELSE IF f.use_default THEN "default"
    ELSE "interactive"

\* a mutation of NextIdx: the index is not advanced
NextIdxStay(current_idx, len) ==
    (IF current_idx = None THEN 0 ELSE current_idx[1]) % len

\* ((current_idx.unwrap_or(usize::MAX)).wrapping_add(1)) % outputs.len()
\* usize::MAX.wrapping_add(1) is 0; an index below outputs.len() never wraps
NextIdx(current_idx, len) ==
    (IF current_idx = None THEN 0 ELSE current_idx[1] + 1) % len

\* outputs.iter().any(|o| o.name == target_output_name)
Exists(outs, name) == \E i \in 1..Len(outs) : outs[i].name = name

\* a mutation of Chosen: the target is used without the existence check
ChosenUnchecked(outs, target_output_name) == target_output_name

\* let chosen = if exists { target_output_name } else { outputs[0].name.clone() }
Chosen(outs, target_output_name) ==
    IF Exists(outs, target_output_name)
    THEN target_output_name
    ELSE outs[1].name

-----------------------------------------------------------------------------
(* Standard input: the selection of interactive mode, character by character *)

Digits == { "0", "1", "2", "3", "4", "5", "6", "7", "8", "9" }

DigitVal(c) ==
    CHOOSE d \in 0..9 :
        << "0", "1", "2", "3", "4", "5", "6", "7", "8", "9" >>[d + 1] = c

RECURSIVE DigitsValue(_, _)
DigitsValue(ds, acc) ==
    IF ds = << >> THEN acc
    ELSE DigitsValue(Tail(ds), acc * 10 + DigitVal(Head(ds)))

\* str::parse::<usize>: an optional '+', then one or more decimal digits.
\* A value above usize::MAX is an error; no input of the lengths used here
\* reaches it.
ParseUsize(s) ==
    IF s = << >> THEN None
    ELSE IF s[1] \in { "+", "-" } /\ Len(s) = 1 THEN None
    ELSE LET ds == IF s[1] = "+" THEN Tail(s) ELSE s
         IN  IF \A i \in 1..Len(ds) : ds[i] \in Digits
             THEN Some(DigitsValue(ds, 0))
             ELSE None

\* a mutation of InRange: the upper end of the range is excluded
InRangeExclusive(n, len) == n >= 1 /\ n < len

\* (1..=outputs.len()).contains(&n)
InRange(n, len) == n >= 1 /\ n <= len

\* match input.trim().parse::<usize>() { Ok(n) if (1..=len).contains(&n) => n - 1, _ => .. }
Selection(input, len) ==
    LET p == ParseUsize(Trim(input))
    IN  IF p # None /\ InRange(p[1], len) THEN Some(p[1] - 1) ELSE None

InputChars == { "0", "1", "2", "3", "+", " ", "x" }

Inputs == SeqsUpTo(InputChars, MaxInputLen)

-----------------------------------------------------------------------------
(* Sway config helpers.  A config file is the sequence of its lines.        *)

start_pat == "Primary Monitor Start"

end_pat == "Primary Monitor End"

Quote == "\""

\* length of the maximal run of tokens other than the quote from position i
RECURSIVE NonQuoteRun(_, _)
NonQuoteRun(s, i) ==
    IF i <= Len(s) /\ s[i] # Quote THEN 1 + NonQuoteRun(s, i + 1) ELSE 0

\* re_output_uncommented: ^\s*output\s+"([^"]+)"  (the capture, or None)
OutputCaptures(line) ==
    LET a == RunLen(line, 1, WS)
        b == RunLen(line, a + 2, WS)
        q == a + b + 2
        m == NonQuoteRun(line, q + 1)
    IN  IF /\ a + 1 <= Len(line) /\ line[a + 1] = "output"
           /\ b >= 1
           /\ q <= Len(line) /\ line[q] = Quote
           /\ m >= 1
           /\ q + m + 1 <= Len(line) /\ line[q + m + 1] = Quote
        THEN Some(SubSeq(line, q + 1, q + m))
        ELSE None

\* lines.iter().skip(skip).position(|l| l.contains(pat)), counted from `off`
RECURSIVE PositionFrom(_, _, _, _)
PositionFrom(lines, skip, pat, off) ==
    IF skip + off >= Len(lines) THEN None
    ELSE IF Contains(lines[skip + off + 1], << pat >>) THEN Some(off)
    ELSE PositionFrom(lines, skip, pat, off + 1)

Position(lines, skip, pat) == PositionFrom(lines, skip, pat, 0)

\* a mutation of NextSearchFrom: the search resumes on the end line itself
NextSearchFromEndLine(end_idx) == end_idx

\* search_from = end_idx + 1;
NextSearchFrom(end_idx) == end_idx + 1

\* a mutation of UnmatchedStart: the rest of the file is taken as a block
UnmatchedStartToEof(lines, start_idx, acc) ==
    Append(acc, << start_idx, Len(lines) - 1 >>)

\* unmatched start -> stop scanning further: `break` leaves blocks as it is
UnmatchedStart(lines, start_idx, acc) == acc

\* the `while let` loop that collects the (start_idx, end_idx) pairs
RECURSIVE FindBlocks(_, _, _)
FindBlocks(lines, search_from, acc) ==
    LET s == Position(lines, search_from, start_pat)
    IN  IF s = None THEN acc
        ELSE LET start_idx   == search_from + s[1]
                 after_start == start_idx + 1
                 e           == Position(lines, after_start, end_pat)
             IN  IF e = None THEN UnmatchedStart(lines, start_idx, acc)
                 ELSE LET end_idx == after_start + e[1]
                      IN  FindBlocks(lines, NextSearchFrom(end_idx),
                                     Append(acc, << start_idx, end_idx >>))

\* line.trim_start().starts_with('#')
IsCommented(line) ==
    LET trimmed == TrimStart(line)
    IN  trimmed # << >> /\ Head(trimmed) = "#"

\* for &line in &lines[start_idx..=end_idx], from line i on
RECURSIVE ScanLines(_, _, _)
ScanLines(lines, i, end_idx) ==
    IF i > end_idx THEN None
    ELSE LET line == lines[i + 1]
         IN  IF IsCommented(line) THEN ScanLines(lines, i + 1, end_idx)
             ELSE LET cap == OutputCaptures(line)
                  IN  IF cap # None THEN cap
                      ELSE ScanLines(lines, i + 1, end_idx)

\* for (start_idx, end_idx) in blocks, from the k-th block on
RECURSIVE ScanBlocks(_, _, _)
ScanBlocks(lines, blks, k) ==
    IF k > Len(blks) THEN None
    ELSE LET r == ScanLines(lines, blks[k][1], blks[k][2])
         IN  IF r # None THEN r ELSE ScanBlocks(lines, blks, k + 1)

\* the local `blocks` once the `while let` loop has ended
ConfigBlocks(content) ==
    IF content = None THEN << >> ELSE FindBlocks(content[1], 0, << >>)

\* content is None when std::fs::read_to_string fails
read_preferred_from_sway_config(content) ==
    IF content = None THEN None
    ELSE ScanBlocks(content[1], ConfigBlocks(content), 1)

StartLine == << "#", "!", " ", start_pat, " ", "!", "#" >>

EndLine == << "#", "!", " ", end_pat, " ", "!", "#" >>

DeclAcer == << "output", " ", Quote, "Acer", " ", "XF", Quote, " ", "resolution" >>

DeclCommented == << " ", "#", " ", "output", " ", Quote, "eDP", "-", "1", Quote >>

DeclDP1 == << " ", "output", " ", Quote, "DP", "-", "1", Quote >>

DeclOnEndLine ==
    << "output", " ", Quote, "HDMI", "-", "1", Quote, " ", "#", " ", end_pat >>

DeclOnStartLine ==
    << "output", " ", Quote, "DP", "-", "2", Quote, " ", "#", " ", start_pat >>

EndThenStart == << "#", " ", end_pat, " ", "#", " ", start_pat >>

NotADecl == << "exec", " ", "output", " ", Quote, "DP", "-", "3", Quote >>

\* the lines a config file is made of
FileLines == { StartLine, EndLine, DeclAcer, DeclCommented, DeclDP1,
               DeclOnEndLine, DeclOnStartLine, EndThenStart, NotADecl }

\* files of two three-line blocks
TwoBlockFiles ==
    { << StartLine, c, EndLine, StartLine, d, EndLine >> :
        c \in { DeclCommented, NotADecl },
        d \in { DeclAcer, DeclDP1, DeclCommented } }

Files ==
    { None } \cup
    { Some(f) : f \in SeqsUpTo(FileLines, MaxFileLines) \cup TwoBlockFiles }

\* the config files a run of main is given
RunConfigs ==
    { None } \cup
    { Some(<< StartLine, l, EndLine >>) :
        l \in { DeclAcer, DeclCommented, DeclDP1 } } \cup
    { Some(<< StartLine, DeclOnEndLine >>) }

-----------------------------------------------------------------------------
(* Map Sway "nice" to connector name.  A record of the JSON array is        *)
(* modelled by its five fields after .and_then(as_str).unwrap_or(""): an    *)
(* absent or non-string field is the empty text.                            *)

ConnectorFamilies ==
    { "DP", "eDP", "HDMI", "DVI", "VGA", "USB-C", "LVDS", "Virtual", "X11" }

\* ^(e?DP|HDMI|DVI|VGA|USB-C|LVDS|Virtual|X11)-
LooksLikeConnector(h) ==
    Len(h) >= 2 /\ h[1] \in ConnectorFamilies /\ h[2] = "-"

\* !desc.is_empty() && desc == hint
DescMatches(v, h) == v.description # << >> /\ v.description = h

\* format!("{} {} {}", make, model, serial).trim()
Combo(v) == Trim(v.make \o << " " >> \o v.model \o << " " >> \o v.serial)

\* !combo.is_empty() && combo == hint
ComboMatches(v, h) == Combo(v) # << >> /\ Combo(v) = h

\* a mutation of MatchRecords: every description is compared before any
\* make/model/serial concatenation
RECURSIVE MatchBy(_, _, _, _)
MatchBy(arr, i, h, byDesc) ==
    IF i >= Len(arr) THEN None
    ELSE IF (IF byDesc THEN DescMatches(arr[i + 1], h)
                       ELSE ComboMatches(arr[i + 1], h))
         THEN Some(arr[i + 1].name)
         ELSE MatchBy(arr, i + 1, h, byDesc)

MatchRecordsTwoPasses(arr, i, h) ==
    IF MatchBy(arr, i, h, TRUE) # None
    THEN MatchBy(arr, i, h, TRUE)
    ELSE MatchBy(arr, i, h, FALSE)

\* for v in arr { .. }, from record i on
RECURSIVE MatchRecords(_, _, _)
MatchRecords(arr, i, h) ==
    IF i >= Len(arr) THEN None
    ELSE LET v == arr[i + 1]
         IN  IF DescMatches(v, h) THEN Some(v.name)
             ELSE IF ComboMatches(v, h) THEN Some(v.name)
             ELSE MatchRecords(arr, i + 1, h)

\* listing is None when swaymsg fails or its output is no JSON array
map_sway_hint_to_connector(h, listing) ==
    IF LooksLikeConnector(h) THEN Some(h)
    ELSE IF listing = None THEN None
    ELSE MatchRecords(listing[1], 0, h)

\* whether map_sway_hint_to_connector(h) runs swaymsg
QueriesSway(h) == ~LooksLikeConnector(h)

SwayRecord(name, description, make, model, serial) ==
    [name |-> name, description |-> description,
     make |-> make, model |-> model, serial |-> serial]

\* the records the compositor is given to list
SwayRecords == {
    SwayRecord(<< "HDMI", "-", "1" >>, << "Acer", " ", "XF" >>,
               << >>, << >>, << >>),
    SwayRecord(<< "DP", "-", "1" >>, << "Old" >>,
               << "Acer" >>, << "XF" >>, << >>),
    SwayRecord(<< "eDP", "-", "1" >>, << >>,
               << >>, << "Acer" >>, << >>),
    SwayRecord(<< "DP", "-", "2" >>, << "Acer", " ", "XF" >>,
               << "Acer" >>, << >>, << "XF" >>) }

Listings ==
    { None } \cup { Some(l) : l \in SeqsUpTo(SwayRecords, MaxRecords) }

\* the listings a run of main is given
RunListings ==
    { None } \cup { Some(<< >>) } \cup { Some(<< r >>) : r \in SwayRecords }

Hints == { << "Acer", " ", "XF" >>, << "Acer" >>, << "Old" >>,
           << "DP", "-", "1" >> }

-----------------------------------------------------------------------------
(* Effects of a run: processes run, lines printed, notifications sent *)

\* a mutation of SetPrimary: the command is run a second time
SetPrimaryTwice(calls, output) == Append(Append(calls, output), output)

\* set_primary runs `xrandr --output <output> --primary` once
SetPrimary(calls, output) == Append(calls, output)

\* notify_ok, notify_info, notify_error: `let _ = ...show();` drops the result
Notify(ns, kind, shown) == Append(ns, [kind |-> kind, shown |-> shown])

\* a line of standard output
OutLine(kind, idx, name, primary) ==
    [kind |-> kind, idx |-> idx, name |-> name, primary |-> primary]

\* println!("  {}. {}{}", i + 1, o.name, if o.primary { .. } else { "" })
ListLines(outs) ==
    [i \in 1..Len(outs) |->
        OutLine("item", i, outs[i].name, outs[i].primary)]

\* the values of the environment variable HOME (None: not set)
Homes == { None, Some("/home/user") }

\* default_sway_config: env::var("HOME").expect("HOME is not set"), then
\* .join(".config/sway/config"); None stands for the panic of expect
default_sway_config(home) ==
    IF home = None THEN None
    ELSE Some(<< home[1], ".config/sway/config" >>)

\* matches.get_one::<String>("config").map(PathBuf::from)
\*     .unwrap_or_else(default_sway_config)
CfgPath(config, home) ==
    IF config THEN Some(<< "--config" >>) ELSE default_sway_config(home)

-----------------------------------------------------------------------------
(* One run of main *)

Init ==
    /\ pc = "start"
    /\ flags \in [status : BOOLEAN, auto : BOOLEAN, use_default : BOOLEAN,
                  config : BOOLEAN]
    /\ cfg_path = None
    /\ xres = None
    /\ outputs = << >>
    /\ next_idx = None
    /\ cfgContent = None
    /\ blocks = << >>
    /\ preferred = None
    /\ hint = None
    /\ swayListing = None
    /\ resolved = None
    /\ stdinLine = None
    /\ xrandrQueries = 0
    /\ swayQueries = 0
    /\ configReads = 0
    /\ applyCalls = << >>
    /\ stdout = << >>
    /\ stderr = << >>
    /\ notifications = << >>
    /\ modesRun = { }
    /\ exitCode = None

\* if !cmd_ok("xrandr", &["--query"]) { .. exit(1) }
CmdOkStep ==
    /\ pc = "start"
    /\ \E ok \in BOOLEAN, shown \in BOOLEAN :
        /\ xrandrQueries' = xrandrQueries + 1
        /\ IF ok
           THEN /\ pc' = "list"
                /\ UNCHANGED << notifications, stderr, exitCode >>
           ELSE /\ notifications' = Notify(notifications, "error", shown)
                /\ stderr' = Append(stderr, "Error: xrandr --query failed.")
                /\ exitCode' = Some(1)
                /\ pc' = "done"
    /\ UNCHANGED << flags, cfg_path, xres, outputs, next_idx, cfgContent, blocks,
                    preferred, hint, swayListing, resolved, stdinLine,
                    swayQueries, configReads, applyCalls, stdout, modesRun >>

\* let mut outputs = match xrandr_list_outputs() { Ok(v) if !v.is_empty() => v, _ => exit(1) }
ListOutputsStep ==
    /\ pc = "list"
    /\ \E res \in { None } \cup { Some(t) : t \in XTexts }, shown \in BOOLEAN :
        LET r == xrandr_list_outputs(res)
        IN  /\ xres' = res
            /\ xrandrQueries' = xrandrQueries + 1
            /\ IF r # None /\ r[1] # << >>
               THEN /\ outputs' = r[1]
                    /\ pc' = "dispatch"
                    /\ UNCHANGED << notifications, stderr, exitCode >>
               ELSE /\ notifications' = Notify(notifications, "error", shown)
                    /\ stderr' = Append(stderr, "No connected X11 outputs found.")
                    /\ exitCode' = Some(1)
                    /\ pc' = "done"
                    /\ UNCHANGED outputs
    /\ UNCHANGED << flags, cfg_path, next_idx, cfgContent, blocks, preferred, hint,
                    swayListing, resolved, stdinLine, swayQueries,
                    configReads, applyCalls, stdout, modesRun >>

\* --status: print current primary and exit
StatusMode ==
    /\ pc = "dispatch"
    /\ SelectMode(flags) = "status"
    /\ LET cur == current_primary_index_name(outputs)
       IN  IF cur.name # None
           THEN /\ stdout' = Append(stdout,
                        OutLine("Primary monitor", 0, cur.name[1], TRUE))
                /\ exitCode' = Some(0)
           ELSE /\ stdout' = Append(stdout, OutLine("(none)", 0, << >>, FALSE))
                /\ exitCode' = Some(1)
    /\ modesRun' = modesRun \cup { "status" }
    /\ pc' = "done"
    /\ UNCHANGED << flags, cfg_path, xres, outputs, next_idx, cfgContent, blocks,
                    preferred, hint, swayListing, resolved, stdinLine,
                    xrandrQueries, swayQueries, configReads, applyCalls,
                    stderr, notifications >>

\* if auto { .. }: cycle to the next connected output after current primary
AutoMode ==
    /\ pc = "dispatch"
    /\ SelectMode(flags) = "auto"
    /\ \E ok \in BOOLEAN, shown \in BOOLEAN :
        LET cur    == current_primary_index_name(outputs)
            nidx   == NextIdx(cur.idx, Len(outputs))
            target == outputs[nidx + 1].name
        IN  /\ next_idx' = Some(nidx)
            /\ applyCalls' = SetPrimary(applyCalls, target)
            /\ IF ok
               THEN /\ notifications' = Notify(notifications, "ok", shown)
                    /\ exitCode' = Some(0)
               ELSE /\ notifications' = Notify(notifications, "error", shown)
                    /\ exitCode' = Some(1)
    /\ modesRun' = modesRun \cup { "auto" }
    /\ pc' = "done"
    /\ UNCHANGED << flags, cfg_path, xres, outputs, cfgContent, blocks, preferred, hint,
                    swayListing, resolved, stdinLine, xrandrQueries,
                    swayQueries, configReads, stdout, stderr >>

\* if use_default { .. }: the monitor named by the Sway config block.
\* home is the value of HOME; without --config and without HOME,
\* default_sway_config panics: the message goes to the error stream and the
\* process ends with status 101 before the config is read.
DefaultMode ==
    /\ pc = "dispatch"
    /\ SelectMode(flags) = "default"
    /\ \E home \in Homes, content \in RunConfigs, listing \in RunListings,
          ok \in BOOLEAN, shownInfo \in BOOLEAN, shown \in BOOLEAN :
        LET path    == CfgPath(flags.config, home)
            pref    == read_preferred_from_sway_config(content)
            queried == pref # None /\ QueriesSway(pref[1])
            res     == IF pref = None THEN None
                       ELSE map_sway_hint_to_connector(pref[1], listing)
            target_output_name ==
                IF pref # None
                THEN IF res # None THEN res[1] ELSE pref[1]
                ELSE outputs[1].name
            chosen  == Chosen(outputs, target_output_name)
            noted   == IF pref = None
                       THEN Notify(notifications, "info", shownInfo)
                       ELSE notifications
        IN  /\ cfg_path' = path
            /\ IF path = None
               THEN /\ stderr' = Append(stderr, "HOME is not set: NotPresent")
                    /\ exitCode' = Some(101)
                    /\ UNCHANGED << configReads, cfgContent, blocks,
                                    preferred, hint, swayQueries, swayListing,
                                    resolved, applyCalls, notifications >>
               ELSE /\ configReads' = configReads + 1
                    /\ cfgContent' = content
                    /\ blocks' = ConfigBlocks(content)
                    /\ preferred' = pref
                    /\ hint' = pref
                    /\ swayQueries' = IF queried THEN swayQueries + 1
                                      ELSE swayQueries
                    /\ swayListing' = IF queried THEN listing ELSE None
                    /\ resolved' = res
                    /\ applyCalls' = SetPrimary(applyCalls, chosen)
                    /\ UNCHANGED stderr
                    /\ IF ok
                       THEN /\ notifications' = Notify(noted, "ok", shown)
                            /\ exitCode' = Some(0)
                       ELSE /\ notifications' = Notify(noted, "error", shown)
                            /\ exitCode' = Some(1)
    /\ modesRun' = modesRun \cup { "default" }
    /\ pc' = "done"
    /\ UNCHANGED << flags, xres, outputs, next_idx, stdinLine, xrandrQueries,
                    stdout >>

\* Interactive mode: list the outputs, read a number, set that output primary
InteractiveMode ==
    /\ pc = "dispatch"
    /\ SelectMode(flags) = "interactive"
    /\ \E readOk \in BOOLEAN, body \in Inputs, newline \in BOOLEAN,
          ok \in BOOLEAN, shown \in BOOLEAN :
        LET input == IF newline THEN body \o << "\n" >> ELSE body
            sel   == Selection(input, Len(outputs))
        IN  /\ stdout' = stdout
                    \o << OutLine("Detected X11 outputs:", 0, << >>, FALSE) >>
                    \o ListLines(outputs)
                    \o << OutLine("Pick a number to set as primary: ",
                                  0, << >>, FALSE) >>
            /\ stdinLine' = IF readOk THEN Some(input) ELSE None
            /\ IF ~readOk
               THEN /\ notifications' = Notify(notifications, "error", shown)
                    /\ exitCode' = Some(1)
                    /\ UNCHANGED << stderr, applyCalls >>
               ELSE IF sel = None
               THEN /\ notifications' = Notify(notifications, "error", shown)
                    /\ stderr' = Append(stderr, "Invalid selection.")
                    /\ exitCode' = Some(1)
                    /\ UNCHANGED applyCalls
               ELSE /\ applyCalls' =
                        SetPrimary(applyCalls, outputs[sel[1] + 1].name)
                    /\ UNCHANGED stderr
                    /\ IF ok
                       THEN /\ notifications' = Notify(notifications, "ok", shown)
                            /\ exitCode' = Some(0)
                       ELSE /\ notifications' =
                                Notify(notifications, "error", shown)
                            /\ exitCode' = Some(1)
    /\ modesRun' = modesRun \cup { "interactive" }
    /\ pc' = "done"
    /\ UNCHANGED << flags, cfg_path, xres, outputs, next_idx, cfgContent, blocks,
                    preferred, hint, swayListing, resolved, xrandrQueries,
                    swayQueries, configReads >>

Next ==
    \/ CmdOkStep
    \/ ListOutputsStep
    \/ StatusMode
    \/ AutoMode
    \/ DefaultMode
    \/ InteractiveMode

Spec == Init /\ [][Next]_vars

-----------------------------------------------------------------------------
(* The preference extractor on its own, on every config file of the bounds *)

InitExtract ==
    /\ pc = "extract"
    /\ flags = [status |-> FALSE, auto |-> FALSE, use_default |-> TRUE,
                config |-> TRUE]
    /\ cfg_path = Some(<< "--config" >>)
    /\ cfgContent \in Files
    /\ xres = None
    /\ outputs = << >>
    /\ next_idx = None
    /\ blocks = << >>
    /\ preferred = None
    /\ hint = None
    /\ swayListing = None
    /\ resolved = None
    /\ stdinLine = None
    /\ xrandrQueries = 0
    /\ swayQueries = 0
    /\ configReads = 0
    /\ applyCalls = << >>
    /\ stdout = << >>
    /\ stderr = << >>
    /\ notifications = << >>
    /\ modesRun = { }
    /\ exitCode = None

\* let preferred = read_preferred_from_sway_config(&cfg_path);
Extract ==
    /\ pc = "extract"
    /\ configReads' = configReads + 1
    /\ blocks' = ConfigBlocks(cfgContent)
    /\ preferred' = read_preferred_from_sway_config(cfgContent)
    /\ pc' = "extracted"
    /\ UNCHANGED << flags, cfg_path, xres, outputs, next_idx, cfgContent, hint,
                    swayListing, resolved, stdinLine, xrandrQueries,
                    swayQueries, applyCalls, stdout, stderr, notifications,
                    modesRun, exitCode >>

NextExtract == Extract

SpecExtract == InitExtract /\ [][NextExtract]_vars

-----------------------------------------------------------------------------
(* The hint resolver on its own, on every hint and listing of the bounds *)

InitResolve ==
    /\ pc = "resolve"
    /\ flags = [status |-> FALSE, auto |-> FALSE, use_default |-> TRUE,
                config |-> TRUE]
    /\ cfg_path = Some(<< "--config" >>)
    /\ hint \in { Some(h) : h \in Hints }
    /\ swayListing \in Listings
    /\ xres = None
    /\ outputs = << >>
    /\ next_idx = None
    /\ cfgContent = None
    /\ blocks = << >>
    /\ preferred = None
    /\ resolved = None
    /\ stdinLine = None
    /\ xrandrQueries = 0
    /\ swayQueries = 0
    /\ configReads = 0
    /\ applyCalls = << >>
    /\ stdout = << >>
    /\ stderr = << >>
    /\ notifications = << >>
    /\ modesRun = { }
    /\ exitCode = None

\* match map_sway_hint_to_connector(&hint) { .. }
Resolve ==
    /\ pc = "resolve"
    /\ swayQueries' = IF QueriesSway(hint[1]) THEN swayQueries + 1
                      ELSE swayQueries
    /\ resolved' = map_sway_hint_to_connector(hint[1], swayListing)
    /\ pc' = "resolved"
    /\ UNCHANGED << flags, cfg_path, xres, outputs, next_idx, cfgContent, blocks,
                    preferred, hint, swayListing, stdinLine, xrandrQueries,
                    configReads, applyCalls, stdout, stderr, notifications,
                    modesRun, exitCode >>

NextResolve == Resolve

SpecResolve == InitResolve /\ [][NextResolve]_vars

-----------------------------------------------------------------------------
(* Claims *)

MinOf(S) == CHOOSE i \in S : \A j \in S : i <= j

\* the 0-based indices of the outputs marked primary
PrimaryIdxs(outs) == { i \in 0..(Len(outs) - 1) : outs[i + 1].primary }

OutputNames(outs) == { outs[i].name : i \in 1..Len(outs) }

\* C1: in auto mode, with N outputs and the current primary at index i, the
\* single apply-primary call targets the output at index (i + 1) mod N, which
\* is another index when N >= 2 and the sole output when N = 1; with no
\* primary the target is the first output.
C1_AutoCycle ==
    (pc = "done" /\ "auto" \in modesRun) =>
        LET N == Len(outputs)
            P == PrimaryIdxs(outputs)
            t == IF P = { } THEN 0 ELSE (MinOf(P) + 1) % N
        IN  /\ next_idx = Some(t)
            /\ applyCalls = << outputs[t + 1].name >>
            /\ (N >= 2 /\ P # { } => t # MinOf(P))
            /\ (N = 1 => t = 0)

\* C1 witness: two outputs, the last one primary, and the cycle wrapped to
\* the first.
C1_Witness ==
    /\ pc = "done" /\ "auto" \in modesRun
    /\ Len(outputs) = 2
    /\ PrimaryIdxs(outputs) = { 1 }
    /\ next_idx = Some(0)
    /\ applyCalls = << outputs[1].name >>

\* the name default mode means to apply: the resolved hint, or the raw
\* preference when the resolver returns absence
Candidate ==
    IF preferred = None THEN None
    ELSE IF resolved # None THEN resolved
    ELSE preferred

\* C2: in default mode, for every config content read, the name passed to
\* apply-primary is a member of the OutputSet: the resolved hint (or the raw
\* preference) when that is in the set, else the first output, also when no
\* preference is found.  (A run with neither --config nor HOME ends in
\* default_sway_config before any config is read and passes no name.)
C2_DefaultTarget ==
    (pc = "done" /\ "default" \in modesRun /\ configReads = 1) =>
        /\ Len(applyCalls) = 1
        /\ applyCalls[1] \in OutputNames(outputs)
        /\ (Candidate # None /\ Candidate[1] \in OutputNames(outputs)
                => applyCalls[1] = Candidate[1])
        /\ (Candidate = None \/ Candidate[1] \notin OutputNames(outputs)
                => applyCalls[1] = outputs[1].name)

\* C2 witness: a preference that resolves to no live output, and the first
\* output applied instead.
C2_Witness ==
    /\ pc = "done" /\ "default" \in modesRun /\ configReads = 1
    /\ Candidate # None
    /\ Candidate[1] \notin OutputNames(outputs)
    /\ applyCalls = << outputs[1].name >>

\* the (1-based) lines inside closed blocks, marker lines included, by one
\* pass over the file: `open` is 0 outside a block, else the start line
RECURSIVE CoveredFrom(_, _, _, _)
CoveredFrom(lines, i, open, acc) ==
    IF i > Len(lines) THEN acc
    ELSE IF open = 0
    THEN CoveredFrom(lines, i + 1,
                     IF Contains(lines[i], << start_pat >>) THEN i ELSE 0, acc)
    ELSE IF Contains(lines[i], << end_pat >>)
    THEN CoveredFrom(lines, i + 1, 0, acc \cup (open..i))
    ELSE CoveredFrom(lines, i + 1, open, acc)

\* the (1-based) lines that are uncommented `output "<value>"` declarations
Declarations(lines) ==
    { i \in 1..Len(lines) :
        ~IsCommented(lines[i]) /\ OutputCaptures(lines[i]) # None }

\* C3: the extractor returns the value of the first uncommented declaration
\* that lies inside a closed block; blocks without one are skipped, a start
\* marker with no later end marker opens no block and ends the scan, and
\* the result is absence if there is no such declaration or no file.
C3_FirstDeclaration ==
    pc = "extracted" =>
        IF cfgContent = None THEN preferred = None
        ELSE LET lines == cfgContent[1]
                 D == CoveredFrom(lines, 1, 0, { }) \cap Declarations(lines)
             IN  IF D = { } THEN preferred = None
                 ELSE preferred = OutputCaptures(lines[MinOf(D)])

\* C3 witness: two blocks, the first with only a commented declaration, and
\* the value of the second block's declaration returned.
C3_Witness ==
    /\ pc = "extracted"
    /\ cfgContent = Some(<< StartLine, DeclCommented, EndLine,
                            StartLine, DeclAcer, EndLine >>)
    /\ Len(blocks) = 2
    /\ preferred = Some(<< "Acer", " ", "XF" >>)

ParsesAs(line, k) ==
    \E z \in 0..Len(line) :
        LET zeros == [i \in 1..z |-> "0"]
        IN  \/ line = zeros \o k
            \/ line = << "+" >> \o zeros \o k

DigitChar(d) == << "0", "1", "2", "3", "4", "5", "6", "7", "8", "9" >>[d + 1]

RECURSIVE Decimal(_)
Decimal(k) ==
    IF k < 10 THEN << DigitChar(k) >>
    ELSE Decimal(k \div 10) \o << DigitChar(k % 10) >>

\* the text between the first and the last character that is no whitespace
Trimmed(s) ==
    LET I == { i \in 1..Len(s) : s[i] \notin WS }
    IN  IF I = { } THEN << >>
        ELSE SubSeq(s, MinOf(I), CHOOSE i \in I : \A j \in I : j <= i)

\* the k of 1..count that the trimmed input line denotes
Denoted(input, count) ==
    { k \in 1..count : ParsesAs(Trimmed(input), Decimal(k)) }

\* C4: in interactive mode an input line whose trimmed text is no integer of
\* [1, count] ends the run non-zero with no apply-primary call; an integer k
\* of [1, count] makes the single apply-primary call target the k-th output.
C4_InteractiveSelection ==
    (pc = "done" /\ "interactive" \in modesRun /\ stdinLine # None) =>
        LET K == Denoted(stdinLine[1], Len(outputs))
        IN  IF K = { }
            THEN exitCode = Some(1) /\ applyCalls = << >>
            ELSE \E k \in K : applyCalls = << outputs[k].name >>

\* C4 witness: "+2" picks the second of two outputs.
C4_Witness ==
    /\ pc = "done" /\ "interactive" \in modesRun
    /\ Len(outputs) = 2
    /\ stdinLine = Some(<< "+", "2", "\n" >>)
    /\ applyCalls = << outputs[2].name >>

\* C4, the failing side: "0" is refused and nothing is applied.
C4_WitnessRefused ==
    /\ pc = "done" /\ "interactive" \in modesRun
    /\ stdinLine = Some(<< "0", "\n" >>)
    /\ exitCode = Some(1)
    /\ applyCalls = << >>

\* C5: the modes are tried in the order status, auto, default, interactive
\* and exactly one runs; with the status flag set the run reports the first
\* primary output (or none) and never issues an apply-primary call.
C5_ModePrecedence ==
    /\ Cardinality(modesRun) <= 1
    /\ (flags.status => applyCalls = << >>)
    /\ (pc = "done" /\ outputs # << >>) =>
        /\ modesRun = { CASE flags.status -> "status"
                          [] ~flags.status /\ flags.auto -> "auto"
                          [] ~flags.status /\ ~flags.auto /\ flags.use_default
                                -> "default"
                          [] OTHER -> "interactive" }
        /\ flags.status =>
            LET P == PrimaryIdxs(outputs)
            IN  IF P = { }
                THEN stdout = << OutLine("(none)", 0, << >>, FALSE) >>
                ELSE stdout = << OutLine("Primary monitor", 0,
                                         outputs[MinOf(P) + 1].name, TRUE) >>

\* C5 witness: all three flags set, and only status mode has run.
C5_Witness ==
    /\ pc = "done"
    /\ flags.status /\ flags.auto /\ flags.use_default
    /\ modesRun = { "status" }
    /\ Len(stdout) = 1 /\ stdout[1].kind = "Primary monitor"
    /\ applyCalls = << >>

\* C6 as claimed: at most one query of the display server, one of the
\* compositor, one read of the config file and one apply-primary call.
C6_AtMostOneEach ==
    /\ xrandrQueries <= 1
    /\ swayQueries <= 1
    /\ configReads <= 1
    /\ Len(applyCalls) <= 1

\* C6 as amended: at most two queries of the display server (the cmd_ok
\* probe and the listing), at most one query of the compositor, one read of
\* the config file and one apply-primary call.
C6_QueryCounts ==
    /\ xrandrQueries <= 2
    /\ swayQueries <= 1
    /\ configReads <= 1
    /\ Len(applyCalls) <= 1

\* C6 witness: a default-mode run that did each of them, the display query
\* twice.
C6_Witness ==
    /\ pc = "done"
    /\ xrandrQueries = 2
    /\ swayQueries = 1
    /\ configReads = 1
    /\ Len(applyCalls) = 1

\* C7: a run that exits non-zero has printed to the error stream and sent
\* an error notification.
C7_FatalReported ==
    (pc = "done" /\ exitCode # Some(0)) =>
        /\ stderr # << >>
        /\ \E i \in 1..Len(notifications) : notifications[i].kind = "error"

\* the (1-based) lines of the query text that are connected outputs and
\* contain " primary "
MarkedLines(text) ==
    { j \in 1..Len(text) :
        /\ XrandrCaptures(text[j]) # None
        /\ XrandrCaptures(text[j])[1].status = "connected"
        /\ Contains(text[j], << " ", "primary", " " >>) }

\* C8 as claimed: the OutputSet has at most one primary element, and is
\* non-empty whenever mode logic runs.
C8_AtMostOnePrimary ==
    /\ Cardinality(PrimaryIdxs(outputs)) <= 1
    /\ (modesRun # { } => outputs # << >>)

\* C8 as amended: the OutputSet has as many primary elements as the query
\* text has connected-output lines containing " primary " (so at most one
\* when the text marks at most one), and is non-empty whenever mode logic
\* runs.
C8_PrimaryCount ==
    /\ (pc = "dispatch" \/ modesRun # { } => outputs # << >>)
    /\ (pc \in { "dispatch", "done" } /\ xres # None) =>
        Cardinality(PrimaryIdxs(outputs)) = Cardinality(MarkedLines(xres[1]))

\* C8 witness: a mode has run on the one output of a two-line text whose
\* other line is a disconnected output marked primary.
C8_Witness ==
    /\ pc = "done" /\ modesRun # { }
    /\ Len(outputs) = 1
    /\ Len(xres[1]) = 2
    /\ Cardinality(PrimaryIdxs(outputs)) = 1
    /\ \E j \in 1..2 : /\ XrandrCaptures(xres[1][j]) # None
                       /\ XrandrCaptures(xres[1][j])[1].status = "disconnected"
                       /\ Contains(xres[1][j], << " ", "primary", " " >>)

\* the order of the blocks: each from a start-marker line to a later
\* end-marker line, each next one starting after the previous one's end line
BlocksOrdered(lines) ==
    \A k \in 1..Len(blocks) :
        /\ blocks[k][1] < blocks[k][2]
        /\ Contains(lines[blocks[k][1] + 1], << start_pat >>)
        /\ Contains(lines[blocks[k][2] + 1], << end_pat >>)
        /\ (k > 1 => blocks[k][1] > blocks[k - 1][2])

\* the result is the value of a declaration on a line from..to of a block
TakenWithin(lines, last) ==
    preferred # None =>
        \E k \in 1..Len(blocks) :
            \E j \in blocks[k][1]..(blocks[k][2] - last) :
                /\ ~IsCommented(lines[j + 1])
                /\ OutputCaptures(lines[j + 1]) = preferred

\* C9 as claimed: a block is the half-open range [start, end), so no result
\* is taken from an end-marker line; blocks do not overlap and each next
\* block starts strictly after the previous block's end line.
C9_HalfOpenBlocks ==
    (pc = "extracted" /\ cfgContent # None) =>
        /\ BlocksOrdered(cfgContent[1])
        /\ TakenWithin(cfgContent[1], 1)

\* C9 as amended: a block is the closed range [start, end], both marker
\* lines included, so a result may be taken from the end-marker line; blocks
\* do not overlap and each next block starts strictly after the previous
\* block's end line.
C9_ClosedBlocks ==
    (pc = "extracted" /\ cfgContent # None) =>
        /\ BlocksOrdered(cfgContent[1])
        /\ TakenWithin(cfgContent[1], 0)

\* C9 witness: the declaration on the end-marker line is the result, and a
\* second block follows the first.
C9_Witness ==
    /\ pc = "extracted"
    /\ cfgContent = Some(<< StartLine, DeclOnEndLine, StartLine, EndLine >>)
    /\ blocks = << << 0, 1 >>, << 2, 3 >> >>
    /\ preferred = Some(<< "HDMI", "-", "1" >>)

\* the (1-based) records whose description, or whose trimmed
\* "<make> <model> <serial>", equals the hint
DescIdxs(arr, h) == { i \in 1..Len(arr) : arr[i].description = h }

ComboIdxs(arr, h) ==
    { i \in 1..Len(arr) :
        Trimmed(arr[i].make \o << " " >> \o arr[i].model
                    \o << " " >> \o arr[i].serial) = h }

\* C10 as claimed: for a hint that is no connector, descriptions come first:
\* if some record's description equals the hint the result names such a
\* record, else it names a record whose make/model/serial equals the hint,
\* else it is absence.
C10_DescriptionFirst ==
    (pc = "resolved" /\ ~LooksLikeConnector(hint[1]) /\ swayListing # None) =>
        LET arr == swayListing[1]
            D == DescIdxs(arr, hint[1])
            M == ComboIdxs(arr, hint[1])
        IN  IF D # { }
            THEN resolved # None /\ \E i \in D : resolved[1] = arr[i].name
            ELSE IF M # { }
            THEN resolved # None /\ \E i \in M : resolved[1] = arr[i].name
            ELSE resolved = None

\* C10 as amended: for a hint that is no connector the records are tried in
\* listing order, each by its description and then by its make/model/serial:
\* the result names the first record that matches either way, and is absence
\* if none does.
C10_FirstMatchingRecord ==
    (pc = "resolved" /\ ~LooksLikeConnector(hint[1]) /\ swayListing # None) =>
        LET arr == swayListing[1]
            E == DescIdxs(arr, hint[1]) \cup ComboIdxs(arr, hint[1])
        IN  IF E = { } THEN resolved = None
            ELSE resolved = Some(arr[MinOf(E)].name)

\* C10 witness: a record matching by make/model/serial precedes one matching
\* by description, and the first one's name is the result.
C10_Witness ==
    /\ pc = "resolved"
    /\ hint = Some(<< "Acer", " ", "XF" >>)
    /\ swayListing # None /\ Len(swayListing[1]) = 2
    /\ 1 \in ComboIdxs(swayListing[1], hint[1])
    /\ 1 \notin DescIdxs(swayListing[1], hint[1])
    /\ 2 \in DescIdxs(swayListing[1], hint[1])
    /\ resolved = Some(swayListing[1][1].name)

====
